---- MODULE Spec2Model ----
(***************************************************************************)
(* Model of tracking_plan.py: identifier normalisation, tracking-plan      *)
(* construction, taxonomy validation and the three renderers.              *)
(*                                                                         *)
(* Text is a sequence of one-character strings ("chunks" of several        *)
(* characters stand for the literal parts of the f-strings of the source). *)
(***************************************************************************)
EXTENDS Integers, Sequences, FiniteSets, TLC

VARIABLES pc, args, plan, ret

vars == <<pc, args, plan, ret>>

(***************************************************************************)
(* Bounds of the model.                                                    *)
(***************************************************************************)
MaxLen == 4
MaxParts == 3
MaxStages == 2
MaxActions == 2
MaxEvents == 3
MaxPlanEvents == 2
MaxN == 2

(***************************************************************************)
(* Characters.                                                             *)
(***************************************************************************)
LowerLetters ==
    <<"a","b","c","d","e","f","g","h","i","j","k","l","m",
      "n","o","p","q","r","s","t","u","v","w","x","y","z">>

UpperLetters ==
    <<"A","B","C","D","E","F","G","H","I","J","K","L","M",
      "N","O","P","Q","R","S","T","U","V","W","X","Y","Z">>

Digits == {"0","1","2","3","4","5","6","7","8","9"}

Whitespace == {" ", "\t", "\n", "\r", "\f"}

Range(s) == {s[i] : i \in DOMAIN s}

IsAlnum(c) == c \in Range(LowerLetters) \cup Digits

\* str.lower() on one character
LowerChar(c) ==
    IF c \in Range(UpperLetters)
    THEN LowerLetters[CHOOSE i \in DOMAIN UpperLetters : UpperLetters[i] = c]
    ELSE c

\* str.upper() on one character
UpperChar(c) ==
    IF c \in Range(LowerLetters)
    THEN UpperLetters[CHOOSE i \in DOMAIN LowerLetters : LowerLetters[i] = c]
    ELSE c

Lower(s) == [i \in DOMAIN s |-> LowerChar(s[i])]

\* str.capitalize(): first character upper-cased, the rest lower-cased
Capitalize(s) == [i \in DOMAIN s |-> IF i = 1 THEN UpperChar(s[i]) ELSE LowerChar(s[i])]

RECURSIVE LStrip(_, _)
LStrip(s, cs) ==
    IF s # <<>> /\ Head(s) \in cs THEN LStrip(Tail(s), cs) ELSE s

RECURSIVE RStrip(_, _)
RStrip(s, cs) ==
    IF s # <<>> /\ s[Len(s)] \in cs THEN RStrip(SubSeq(s, 1, Len(s) - 1), cs) ELSE s

\* str.strip(chars)
StripChars(s, cs) == RStrip(LStrip(s, cs), cs)

\* str.strip()
Strip(s) == StripChars(s, Whitespace)

\* re.sub(r"[^a-z0-9]+", "_", text)
RECURSIVE SubNonAlnum(_)
SubNonAlnum(s) ==
    IF s = <<>> THEN <<>>
    ELSE IF IsAlnum(Head(s)) THEN <<Head(s)>> \o SubNonAlnum(Tail(s))
    ELSE <<"_">> \o SubNonAlnum(LStrip(Tail(s), {c \in Range(s) : ~IsAlnum(c)}))

\* re.sub(r"_+", "_", text)
RECURSIVE SubUnderscores(_)
SubUnderscores(s) ==
    IF s = <<>> THEN <<>>
    ELSE IF Head(s) # "_" THEN <<Head(s)>> \o SubUnderscores(Tail(s))
    ELSE <<"_">> \o SubUnderscores(LStrip(Tail(s), {"_"}))

\* variant: the final strip("_") is left out
_slugify_nostrip(text) ==
    SubUnderscores(SubNonAlnum(Lower(Strip(text))))


_slugify(text) ==
    LET t1 == Lower(Strip(text))
        t2 == SubNonAlnum(t1)
    IN  StripChars(SubUnderscores(t2), {"_"})

(***************************************************************************)
(* Bounded sets of sequences.                                              *)
(***************************************************************************)
SeqsUpTo(S, n) == UNION {[1..k -> S] : k \in 0..n}

RECURSIVE Flatten(_)
Flatten(ss) == IF ss = <<>> THEN <<>> ELSE Head(ss) \o Flatten(Tail(ss))

NoRet == [op |-> "none", n |-> 0, value |-> <<>>, raised |-> ""]
NoPlan == [feature_name |-> <<>>, feature_description |-> <<>>, platform |-> <<>>,
           events |-> <<>>, taxonomy_issues |-> <<>>]

(***************************************************************************)
(* Literal text of the source, as character sequences.                     *)
(***************************************************************************)
T_error == <<"e","r","r","o","r">>
T_click == <<"c","l","i","c","k">>
T_cta == <<"c","t","a">>
T_view == <<"v","i","e","w">>
T_start == <<"s","t","a","r","t">>
T_complete == <<"c","o","m","p","l","e","t","e">>

\* Python's "needle in haystack" for str
Contains(haystack, needle) ==
    \E i \in 0..(Len(haystack) - Len(needle)) :
        SubSeq(haystack, i + 1, i + Len(needle)) = needle

\* variant: a single underscore separates feature from label
_event_name_single(feature_name, action) ==
    _slugify(feature_name) \o <<"_">> \o _slugify(action)


_event_name(feature_name, action) ==
    LET base == _slugify(feature_name)
        action_slug == _slugify(action)
    IN  base \o <<"_", "_">> \o action_slug

Prop(name, type, description, required) ==
    [name |-> name, type |-> type, description |-> description, required |-> required]

\* variant: timestamp is not marked required
MandatoryProps_optional_ts ==
    << Prop("user_id", "string", "Unique identifier for the user", TRUE),
       Prop("workspace_id", "string", "Workspace or account identifier", TRUE),
       Prop("timestamp", "datetime", "Event timestamp in ISO 8601", FALSE) >>


MandatoryProps ==
    << Prop("user_id", "string", "Unique identifier for the user", TRUE),
       Prop("workspace_id", "string", "Workspace or account identifier", TRUE),
       Prop("timestamp", "datetime", "Event timestamp in ISO 8601", TRUE) >>

ErrorProps ==
    << Prop("error_code", "string", "Machine-readable error code", FALSE),
       Prop("error_message", "string", "Human-readable error message", FALSE) >>

ClickProps ==
    << Prop("element_id", "string", "Frontend identifier for the clicked element", FALSE),
       Prop("page", "string", "Page or screen where the action occurred", FALSE) >>

\* variant: the keywords are looked up without lower-casing the label
_default_properties_casesensitive(action) ==
    LET props0 == MandatoryProps
        props1 == IF Contains(action, T_error)
                  THEN props0 \o ErrorProps ELSE props0
        props2 == IF Contains(action, T_click) \/ Contains(action, T_cta)
                  THEN props1 \o ClickProps ELSE props1
    IN  props2


_default_properties(action) ==
    LET props0 == MandatoryProps
        props1 == IF Contains(Lower(action), T_error)
                  THEN props0 \o ErrorProps ELSE props0
        props2 == IF Contains(Lower(action), T_click) \/ Contains(Lower(action), T_cta)
                  THEN props1 \o ClickProps ELSE props1
    IN  props2

(***************************************************************************)
(* validate_taxonomy                                                       *)
(***************************************************************************)
\* variant: the pattern does not admit the underscore
SnakeCaseMatch_nounderscore(name) ==
    /\ name # <<>>
    /\ \A i \in DOMAIN name : IsAlnum(name[i])


\* SNAKE_CASE_PATTERN.match(name): ^[a-z0-9_]+$ ; "$" also matches just
\* before one newline that ends the string
SnakeCaseMatch(name) ==
    LET body == IF name # <<>> /\ name[Len(name)] = "\n"
                THEN SubSeq(name, 1, Len(name) - 1) ELSE name
    IN  /\ body # <<>>
        /\ \A i \in DOMAIN body : IsAlnum(body[i]) \/ body[i] = "_"

RequiredProps == <<"user_id", "workspace_id", "timestamp">>

Issue(msg, prop, name) == [msg |-> msg, prop |-> prop, name |-> name]

DuplicateIssue(name) == Issue("Duplicate event name detected: ", "", name)
NotSnakeIssue(name) == Issue("Event name not snake_case: ", "", name)
MissingIssue(prop, name) == Issue("Missing required property in event: ", prop, name)

\* variant: the snake_case check is made before the duplicate check
EventIssues_snakefirst(ev, seen_names) ==
    LET name == ev.event_name
        props == {ev.properties[j].name : j \in DOMAIN ev.properties}
        dup == IF name \in seen_names THEN <<DuplicateIssue(name)>> ELSE <<>>
        snake == IF ~SnakeCaseMatch(name) THEN <<NotSnakeIssue(name)>> ELSE <<>>
        missing == [k \in 1..3 |->
                      IF RequiredProps[k] \notin props
                      THEN <<MissingIssue(RequiredProps[k], name)>> ELSE <<>>]
    IN  snake \o dup \o missing[1] \o missing[2] \o missing[3]


\* the issues of one iteration of the loop, given the names seen before it
EventIssues(ev, seen_names) ==
    LET name == ev.event_name
        props == {ev.properties[j].name : j \in DOMAIN ev.properties}
        dup == IF name \in seen_names THEN <<DuplicateIssue(name)>> ELSE <<>>
        snake == IF ~SnakeCaseMatch(name) THEN <<NotSnakeIssue(name)>> ELSE <<>>
        missing == [k \in 1..3 |->
                      IF RequiredProps[k] \notin props
                      THEN <<MissingIssue(RequiredProps[k], name)>> ELSE <<>>]
    IN  dup \o snake \o missing[1] \o missing[2] \o missing[3]

RECURSIVE ValidateFrom(_, _, _)
ValidateFrom(events, i, seen_names) ==
    IF i > Len(events) THEN <<>>
    ELSE EventIssues(events[i], seen_names)
         \o ValidateFrom(events, i + 1, seen_names \cup {events[i].event_name})

validate_taxonomy(events) == ValidateFrom(events, 1, {})

(***************************************************************************)
(* generate_tracking_plan                                                  *)
(***************************************************************************)
FunnelEvent(feature_name, platform, stage) ==
    [event_name |-> _event_name(feature_name, stage),
     friendly_name |-> feature_name \o <<" - ">> \o Capitalize(stage),
     description |-> <<"Fired when a user ">> \o stage \o <<"s the ">>
                       \o feature_name \o <<" feature.">>,
     when_triggered |-> <<"User ">> \o stage \o <<"s the ">>
                       \o feature_name \o <<" flow.">>,
     platform |-> platform,
     properties |-> _default_properties(stage),
     category |-> "funnel"]

BehaviorEvent(feature_name, platform, action) ==
    [event_name |-> _event_name(feature_name, action),
     friendly_name |-> feature_name \o <<" - ">> \o Capitalize(action),
     description |-> <<"Fired when a user performs key action: ">> \o action \o <<".">>,
     when_triggered |-> <<"User completes action: ">> \o action \o <<".">>,
     platform |-> platform,
     properties |-> _default_properties(action),
     category |-> "behavior"]

DefaultFunnelStages == <<T_view, T_start, T_complete>>

\* variant: only the empty string is skipped
IsBlank_emptyonly(action) == action = <<>>


IsBlank(action) == Strip(action) = <<>>

generate_tracking_plan(feature_name, feature_description, key_actions, platform, funnel_stages) ==
    LET stages == IF funnel_stages = <<>> THEN DefaultFunnelStages ELSE funnel_stages
        funnel == [i \in DOMAIN stages |-> FunnelEvent(feature_name, platform, stages[i])]
        kept == SelectSeq(key_actions, LAMBDA a : ~IsBlank(a))
        behavior == [i \in DOMAIN kept |-> BehaviorEvent(feature_name, platform, kept[i])]
        events == funnel \o behavior
    IN  [feature_name |-> feature_name,
         feature_description |-> feature_description,
         platform |-> platform,
         events |-> events,
         taxonomy_issues |-> validate_taxonomy(events)]

(***************************************************************************)
(* tracking_plan_to_markdown: the lines that are joined into the document  *)
(***************************************************************************)
MarkdownProperty(p) ==
    <<"  - ", p.name, " (", p.type, ", ",
      IF p.required THEN "required" ELSE "optional",
      ") -- ", p.description>>

MarkdownEvent(ev) ==
    << <<"### ">> \o ev.event_name,
       <<"- **Friendly name:** ">> \o ev.friendly_name,
       <<"- **Category:** ", ev.category>>,
       <<"- **Platform:** ">> \o ev.platform,
       <<"- **When triggered:** ">> \o ev.when_triggered,
       <<"- **Description:** ">> \o ev.description,
       <<"- **Properties:**">> >>
    \o [j \in DOMAIN ev.properties |-> MarkdownProperty(ev.properties[j])]
    \o << <<>> >>

tracking_plan_to_markdown(p) ==
    << <<"# Tracking Plan: ">> \o p.feature_name,
       <<>>,
       p.feature_description,
       <<>>,
       <<"## Events">>,
       <<>> >>
    \o Flatten([i \in DOMAIN p.events |-> MarkdownEvent(p.events[i])])
    \o (IF p.taxonomy_issues # <<>>
        THEN << <<"## Taxonomy Warnings">>, <<>> >>
             \o [i \in DOMAIN p.taxonomy_issues |->
                   <<"- ", p.taxonomy_issues[i].msg, p.taxonomy_issues[i].prop>>
                   \o p.taxonomy_issues[i].name]
        ELSE <<>>)

(***************************************************************************)
(* tracking_plan_to_dbt_yaml.  The document yaml.safe_dump writes is a     *)
(* sequence of lines; a line carries its indentation, whether it opens a   *)
(* list item ("- "), its key and its node: a scalar, the header of a block *)
(* collection or the empty flow list "[]".  The quoting and folding of     *)
(* scalars is not modelled: a line carries the scalar's value.             *)
(***************************************************************************)
YamlLine(indent, dash, key, kind, value) ==
    [indent |-> indent, dash |-> dash, key |-> key, kind |-> kind, value |-> value]

\* variant: every column is tested not_null
DbtColumn_alltests(p) ==
    [name |-> p.name, description |-> p.description, tests |-> <<"not_null">>]


\* the schema dictionary of one property
DbtColumn(p) ==
    [name |-> p.name,
     description |-> p.description,
     tests |-> IF p.required THEN <<"not_null">> ELSE <<>>]

DbtModel(ev) ==
    [name |-> ev.event_name,
     description |-> ev.description,
     columns |-> [j \in DOMAIN ev.properties |-> DbtColumn(ev.properties[j])]]

DbtSchema(p) ==
    [version |-> 2, models |-> [i \in DOMAIN p.events |-> DbtModel(p.events[i])]]

\* a list-valued key: "key: []" when empty, else "key:" and the items
YamlList(indent, dash, key, items) ==
    IF items = <<>>
    THEN << YamlLine(indent, dash, key, "empty_list", <<>>) >>
    ELSE << YamlLine(indent, dash, key, "block", <<>>) >> \o items

DumpColumn(col) ==
    << YamlLine(2, TRUE, "name", "scalar", <<col.name>>),
       YamlLine(4, FALSE, "description", "scalar", <<col.description>>) >>
    \o YamlList(4, FALSE, "tests",
                [k \in DOMAIN col.tests |-> YamlLine(4, TRUE, "", "scalar", <<col.tests[k]>>)])

DumpModel(m) ==
    << YamlLine(0, TRUE, "name", "scalar", m.name),
       YamlLine(2, FALSE, "description", "scalar", m.description) >>
    \o YamlList(2, FALSE, "columns",
                Flatten([j \in DOMAIN m.columns |-> DumpColumn(m.columns[j])]))

\* yaml.safe_dump(schema, sort_keys=False)
SafeDump(schema) ==
    << YamlLine(0, FALSE, "version", "scalar", <<schema.version>>) >>
    \o YamlList(0, FALSE, "models",
                Flatten([i \in DOMAIN schema.models |-> DumpModel(schema.models[i])]))

tracking_plan_to_dbt_yaml(p) == SafeDump(DbtSchema(p))

(***************************************************************************)
(* generate_sample_events.  One outcome of the random source per record:   *)
(* the event drawn by random.choice(plan["events"]) and a vector of the    *)
(* values the other draws return.                                          *)
(***************************************************************************)
ErrorCodes == <<"", "E_TIMEOUT", "E_500">>
ErrorMessages == <<"", "Timeout", "Internal server error">>
ElementIds == <<"cta_primary", "secondary_button", "link_text">>
Pages == <<"settings", "dashboard", "feature_page">>

\* outcomes of the draws that fill in the values of one record: two vectors
\* that stand for the ranges of randint and the lists of random.choice; the
\* values drawn decide neither the number of records nor their event
RandomDraws ==
    { [user |-> 1, ws |-> 1, minutes |-> 0,
       error_code |-> 1, error_message |-> 2, element_id |-> 3, page |-> 1],
      [user |-> 50, ws |-> 10, minutes |-> 60 * 24,
       error_code |-> 3, error_message |-> 1, element_id |-> 2, page |-> 2] }

Field(key, value) == [key |-> key, value |-> value]

SampleValue(name, d) ==
    IF name = "user_id" THEN <<"user_", d.user>>
    ELSE IF name = "workspace_id" THEN <<"ws_", d.ws>>
    ELSE IF name = "timestamp" THEN <<"utcnow - minutes ", d.minutes, "Z">>
    ELSE IF name = "error_code" THEN <<ErrorCodes[d.error_code]>>
    ELSE IF name = "error_message" THEN <<ErrorMessages[d.error_message]>>
    ELSE IF name = "element_id" THEN <<ElementIds[d.element_id]>>
    ELSE IF name = "page" THEN <<Pages[d.page]>>
    ELSE <<"None">>

\* variant: the record is labelled with the friendly name
SamplePayload_friendly(ev_def, d) ==
    << Field("event_name", ev_def.friendly_name) >>
    \o [j \in DOMAIN ev_def.properties |->
          Field(ev_def.properties[j].name, SampleValue(ev_def.properties[j].name, d))]


\* the payload built for the event definition drawn
SamplePayload(ev_def, d) ==
    << Field("event_name", ev_def.event_name) >>
    \o [j \in DOMAIN ev_def.properties |->
          Field(ev_def.properties[j].name, SampleValue(ev_def.properties[j].name, d))]

(***************************************************************************)
(* Operations.  args holds the caller's arguments, plan the plan built,    *)
(* ret the value the last call returned.                                   *)
(***************************************************************************)
Returned(op, value) == [op |-> op, n |-> 0, value |-> value, raised |-> ""]

GenerateTrackingPlan ==
    /\ pc = "start"
    /\ plan' = generate_tracking_plan(args.feature_name, args.feature_description,
                                      args.key_actions, args.platform, args.funnel_stages)
    /\ pc' = "built"
    /\ ret' = Returned("generate_tracking_plan", <<>>)
    /\ UNCHANGED args

TrackingPlanToMarkdown ==
    /\ pc = "built"
    /\ ret' = Returned("tracking_plan_to_markdown", tracking_plan_to_markdown(plan))
    /\ UNCHANGED <<pc, args, plan>>

\* variant: the renderer drains the events list of the plan it is given
TrackingPlanToDbtYaml_mutating ==
    /\ pc = "built"
    /\ ret' = Returned("tracking_plan_to_dbt_yaml", tracking_plan_to_dbt_yaml(plan))
    /\ plan' = [plan EXCEPT !.events = <<>>]
    /\ UNCHANGED <<pc, args>>


TrackingPlanToDbtYaml ==
    /\ pc = "built"
    /\ ret' = Returned("tracking_plan_to_dbt_yaml", tracking_plan_to_dbt_yaml(plan))
    /\ UNCHANGED <<pc, args, plan>>

\* random.choice raises IndexError on an empty sequence
GenerateSampleEvents ==
    /\ pc = "built"
    /\ \E n \in 0..MaxN :
         IF n > 0 /\ plan.events = <<>>
         THEN ret' = [op |-> "generate_sample_events", n |-> n, value |-> <<>>,
                      raised |-> "IndexError"]
         ELSE \E picks \in [1..n -> DOMAIN plan.events], draws \in [1..n -> RandomDraws] :
                ret' = [op |-> "generate_sample_events", n |-> n,
                        value |-> [i \in 1..n |->
                                     SamplePayload(plan.events[picks[i]], draws[i])],
                        raised |-> ""]
    /\ UNCHANGED <<pc, args, plan>>

(***************************************************************************)
(* Input text.                                                             *)
(***************************************************************************)
T_a_b == <<"a", " ", "b">>
T_Share == <<"S", "h", "a", "r", "e">>
T_SyncBang == <<"S", "y", "n", "c", "!">>
T_sync == <<"s", "y", "n", "c">>
T_ErrorClick == <<"E", "r", "r", "o", "r", " ", "C", "l", "i", "c", "k">>
T_CTA == <<"C", "T", "A">>
T_blank == <<" ", "\t">>

Args(feature_name, feature_description, key_actions, platform, funnel_stages) ==
    [feature_name |-> feature_name, feature_description |-> feature_description,
     key_actions |-> key_actions, platform |-> platform, funnel_stages |-> funnel_stages]

(***************************************************************************)
(* A session: one plan is built, then the renderers run in any order, any  *)
(* number of times.                                                        *)
(***************************************************************************)
SessionStages == {<<>>, <<T_sync>>}
SessionActions == {<<T_SyncBang>>, <<T_blank, T_ErrorClick>>}

Init ==
    /\ pc = "start"
    /\ args \in {Args(T_a_b, <<"Sharing">>, ka, <<"web">>, fs) :
                   ka \in SessionActions, fs \in SessionStages}
    /\ plan = NoPlan
    /\ ret = NoRet

Next ==
    \/ GenerateTrackingPlan
    \/ TrackingPlanToMarkdown
    \/ TrackingPlanToDbtYaml
    \/ GenerateSampleEvents

Spec == Init /\ [][Next]_vars

(***************************************************************************)
(* The plan builder and the deterministic renderers over a richer set of   *)
(* arguments.                                                              *)
(***************************************************************************)
Features == {T_a_b, <<>>, T_Share}
Platforms == {<<"web">>, <<"api">>}
StageLabels == {<<>>, T_sync, T_CTA}
ActionLabels == {T_blank, T_SyncBang, T_sync, T_ErrorClick}

InitBuild ==
    /\ pc = "start"
    /\ args \in {Args(f, <<"Sharing">>, ka, pf, fs) :
                   f \in Features, pf \in Platforms,
                   ka \in SeqsUpTo(ActionLabels, MaxActions),
                   fs \in SeqsUpTo(StageLabels, MaxStages)}
    /\ plan = NoPlan
    /\ ret = NoRet

NextBuild ==
    \/ GenerateTrackingPlan
    \/ TrackingPlanToMarkdown
    \/ TrackingPlanToDbtYaml

SpecBuild == InitBuild /\ [][NextBuild]_vars

(***************************************************************************)
(* generate_sample_events as a function of any plan dictionary.            *)
(***************************************************************************)
CustomEvent ==
    [FunnelEvent(T_Share, <<"web">>, T_view) EXCEPT
        !.properties = MandatoryProps
                       \o << Prop("plan_tier", "string", "Subscription tier", FALSE) >>]

SampleEventDefs ==
    {FunnelEvent(T_Share, <<"web">>, T_view),
     BehaviorEvent(T_Share, <<"web">>, T_ErrorClick),
     CustomEvent}

InitSamples ==
    /\ pc = "built"
    /\ args = <<>>
    /\ plan \in {[feature_name |-> T_Share, feature_description |-> <<>>,
                  platform |-> <<"web">>, events |-> evs,
                  taxonomy_issues |-> validate_taxonomy(evs)] :
                   evs \in SeqsUpTo(SampleEventDefs, MaxPlanEvents)}
    /\ ret = NoRet

NextSamples == GenerateSampleEvents

SpecSamples == InitSamples /\ [][NextSamples]_vars

(***************************************************************************)
(* _default_properties as a pure function of the label.                    *)
(***************************************************************************)
Fragments ==
    {T_error, <<"E", "r", "R", "O", "R">>, T_click, <<"C", "l", "i", "c", "K">>,
     T_cta, T_CTA, <<" ">>, <<"c", "t">>, <<"e", "r", "r">>, <<"_">>}

InitProps ==
    /\ pc = "start"
    /\ args \in {Flatten(fs) : fs \in SeqsUpTo(Fragments, MaxParts)}
    /\ plan = NoPlan
    /\ ret = NoRet

DefaultProperties ==
    /\ pc = "start"
    /\ pc' = "done"
    /\ ret' = Returned("_default_properties", _default_properties(args))
    /\ UNCHANGED <<args, plan>>

NextProps == DefaultProperties

SpecProps == InitProps /\ [][NextProps]_vars

(***************************************************************************)
(* validate_taxonomy as a pure function of any list of events.             *)
(***************************************************************************)
ValidatorNames == {<<"a", "_", "_", "b">>, <<"A">>, <<>>, <<"a", "\n">>}

ValidatorProps ==
    {MandatoryProps,
     <<MandatoryProps[2], MandatoryProps[2]>> \o ClickProps,
     <<>>}

ValidatorEvents ==
    {[event_name |-> nm, properties |-> ps] : nm \in ValidatorNames, ps \in ValidatorProps}

InitValidate ==
    /\ pc = "start"
    /\ args \in SeqsUpTo(ValidatorEvents, MaxEvents)
    /\ plan = NoPlan
    /\ ret = NoRet

ValidateTaxonomy ==
    /\ pc = "start"
    /\ pc' = "done"
    /\ ret' = Returned("validate_taxonomy", validate_taxonomy(args))
    /\ UNCHANGED <<args, plan>>

NextValidate == ValidateTaxonomy

SpecValidate == InitValidate /\ [][NextValidate]_vars

(***************************************************************************)
(* _slugify as a pure function over bounded text.                          *)
(***************************************************************************)
SlugAlphabet == {"a", "Z", "7", "_", " ", "-", "\n"}

InitSlugify ==
    /\ pc = "start"
    /\ args \in SeqsUpTo(SlugAlphabet, MaxLen)
    /\ plan = NoPlan
    /\ ret = NoRet

Slugify ==
    /\ pc = "start"
    /\ pc' = "done"
    /\ ret' = [op |-> "_slugify", n |-> 0, value |-> _slugify(args), raised |-> ""]
    /\ UNCHANGED <<args, plan>>

NextSlugify == Slugify

SpecSlugify == InitSlugify /\ [][NextSlugify]_vars

NoEdgeOrDoubleUnderscore(s) ==
    /\ s # <<>> => (s[1] # "_" /\ s[Len(s)] # "_")
    /\ \A i \in 1..(Len(s) - 1) : ~(s[i] = "_" /\ s[i + 1] = "_")

\* C1: _slugify is total and idempotent; its output has only characters of
\* [a-z0-9_], no leading, trailing or doubled underscore.
SlugifyIdempotentCanonical ==
    ret.op = "_slugify" =>
        /\ _slugify(ret.value) = ret.value
        /\ \A i \in DOMAIN ret.value : IsAlnum(ret.value[i]) \/ ret.value[i] = "_"
        /\ NoEdgeOrDoubleUnderscore(ret.value)

\* a mixed input whose slug needs lower-casing, run collapsing and stripping
SlugifyWitness ==
    /\ ret.op = "_slugify"
    /\ args = <<"_", "Z", "-", " ">>
    /\ ret.value = <<"z">>

(***************************************************************************)
(* Properties of the plan generate_tracking_plan returns.                  *)
(***************************************************************************)
AllWhitespace(s) == \A i \in DOMAIN s : s[i] \in Whitespace

CountWhere(seq, Test(_)) == Cardinality({i \in DOMAIN seq : Test(seq[i])})

NonBlank(a) == ~AllWhitespace(a)

ExpectedStages == IF Len(args.funnel_stages) > 0 THEN args.funnel_stages ELSE DefaultFunnelStages

\* C2: the number of events is the number of funnel stages (3 when none is
\* given) plus the number of key actions that are not blank; blank stages
\* count, blank actions do not.
EventCount ==
    pc = "built" =>
        Len(plan.events)
          = (IF Len(args.funnel_stages) > 0 THEN Len(args.funnel_stages) ELSE 3)
            + CountWhere(args.key_actions, NonBlank)

\* a blank stage is counted, a blank action is skipped
EventCountWitness ==
    /\ pc = "built"
    /\ args.funnel_stages = <<<<>>, T_sync>>
    /\ args.key_actions = <<T_blank, T_SyncBang>>
    /\ Len(plan.events) = 3

PropNames(ev) == [j \in DOMAIN ev.properties |-> ev.properties[j].name]

\* C3: every event of a built plan has exactly one user_id, one
\* workspace_id and one timestamp property, all required, as its first
\* three properties in that order.
MandatoryPropertiesFirst ==
    pc = "built" =>
        \A i \in DOMAIN plan.events :
            LET ev == plan.events[i] IN
            /\ Len(ev.properties) >= 3
            /\ SubSeq(PropNames(ev), 1, 3) = RequiredProps
            /\ \A k \in 1..3 :
                 /\ ev.properties[k].required = TRUE
                 /\ Cardinality({j \in DOMAIN ev.properties :
                                   ev.properties[j].name = RequiredProps[k]}) = 1

\* an event that also carries the four heuristic properties
MandatoryPropertiesWitness ==
    /\ pc = "built"
    /\ \E i \in DOMAIN plan.events : Len(plan.events[i].properties) = 7

KeptActions == SelectSeq(args.key_actions, NonBlank)

\* C6: events are the funnel events in stage order followed by the behavior
\* events of the non-blank key actions in order; each name is
\* _slugify(feature_name) + "__" + _slugify(label) and platform is copied.
EventsFunnelThenBehavior ==
    pc = "built" =>
        /\ Len(plan.events) = Len(ExpectedStages) + Len(KeptActions)
        /\ \A i \in DOMAIN plan.events :
             LET ev == plan.events[i]
                 isFunnel == i <= Len(ExpectedStages)
                 label == IF isFunnel THEN ExpectedStages[i]
                          ELSE KeptActions[i - Len(ExpectedStages)]
             IN  /\ ev.category = (IF isFunnel THEN "funnel" ELSE "behavior")
                 /\ ev.event_name
                      = _slugify(args.feature_name) \o <<"_", "_">> \o _slugify(label)
                 /\ ev.platform = args.platform
        /\ \A i, j \in DOMAIN plan.events :
             (plan.events[i].category = "behavior" /\ plan.events[j].category = "funnel")
                => j < i

\* two stages then the one non-blank action, with the names of the scenario
EventsOrderWitness ==
    /\ pc = "built"
    /\ args.feature_name = T_a_b
    /\ args.platform = <<"api">>
    /\ args.funnel_stages = <<T_CTA, T_sync>>
    /\ args.key_actions = <<T_blank, T_ErrorClick>>
    /\ [i \in DOMAIN plan.events |-> plan.events[i].event_name]
         = << <<"a","_","b","_","_","c","t","a">>,
              <<"a","_","b","_","_","s","y","n","c">>,
              <<"a","_","b","_","_","e","r","r","o","r","_","c","l","i","c","k">> >>

EventNames == [i \in DOMAIN plan.events |-> plan.events[i].event_name]

PairwiseDistinct(seq) == \A i, j \in DOMAIN seq : i # j => seq[i] # seq[j]

\* C10: a built plan's taxonomy_issues holds duplicate-name issues only:
\* every constructed name matches [a-z0-9_]+ and every event has the three
\* mandatory properties; so the list is empty exactly when the event names
\* are pairwise distinct.
OnlyDuplicateIssues ==
    pc = "built" =>
        /\ \A k \in DOMAIN plan.taxonomy_issues :
             plan.taxonomy_issues[k].msg = "Duplicate event name detected: "
        /\ \A i \in DOMAIN EventNames :
             /\ Len(EventNames[i]) >= 1
             /\ \A c \in Range(EventNames[i]) : IsAlnum(c) \/ c = "_"
        /\ (plan.taxonomy_issues = <<>>) <=> PairwiseDistinct(EventNames)

\* the degenerate name "__" occurs twice and is reported
OnlyDuplicateIssuesWitness ==
    /\ pc = "built"
    /\ args.feature_name = <<>>
    /\ args.funnel_stages = <<<<>>, <<>>>>
    /\ plan.taxonomy_issues = <<DuplicateIssue(<<"_", "_">>)>>

(***************************************************************************)
(* Properties of validate_taxonomy.                                        *)
(***************************************************************************)
HasProp(ev, prop) == \E j \in DOMAIN ev.properties : ev.properties[j].name = prop

\* the issues the event at position i is expected to contribute
ExpectedIssuesAt(events, i) ==
    LET ev == events[i]
        name == ev.event_name
    IN  (IF \E j \in 1..(i - 1) : events[j].event_name = name
         THEN <<DuplicateIssue(name)>> ELSE <<>>)
        \o (IF SnakeCaseMatch(name) THEN <<>> ELSE <<NotSnakeIssue(name)>>)
        \o (IF HasProp(ev, "user_id") THEN <<>> ELSE <<MissingIssue("user_id", name)>>)
        \o (IF HasProp(ev, "workspace_id") THEN <<>> ELSE <<MissingIssue("workspace_id", name)>>)
        \o (IF HasProp(ev, "timestamp") THEN <<>> ELSE <<MissingIssue("timestamp", name)>>)

\* C4: a name occurring k times gets exactly k-1 duplicate issues; issues
\* are ordered by event position and, within an event, duplicate, then
\* not-snake_case, then missing user_id, workspace_id, timestamp; every
\* problem of an event is reported.
ValidatorIssuesOrdered ==
    ret.op = "validate_taxonomy" =>
        /\ ret.value = Flatten([i \in DOMAIN args |-> ExpectedIssuesAt(args, i)])
        /\ \A nm \in {args[i].event_name : i \in DOMAIN args} :
             Cardinality({k \in DOMAIN ret.value : ret.value[k] = DuplicateIssue(nm)})
               = Cardinality({i \in DOMAIN args : args[i].event_name = nm}) - 1

\* a name given three times: two duplicate issues, and the last event
\* yields all five kinds of issue
ValidatorWitness ==
    /\ ret.op = "validate_taxonomy"
    /\ Len(args) = 3
    /\ \A i \in DOMAIN args : args[i].event_name = <<"A">>
    /\ args[3].properties = <<>>
    /\ Len(ret.value) >= 5
    /\ SubSeq(ret.value, Len(ret.value) - 4, Len(ret.value))
         = << DuplicateIssue(<<"A">>), NotSnakeIssue(<<"A">>),
              MissingIssue("user_id", <<"A">>), MissingIssue("workspace_id", <<"A">>),
              MissingIssue("timestamp", <<"A">>) >>

(***************************************************************************)
(* Properties of _default_properties.                                      *)
(***************************************************************************)
\* word occurs in label when letter case is ignored
ContainsIgnoringCase(label, word) ==
    \E off \in 0..(Len(label) - Len(word)) :
        \A k \in 1..Len(word) : LowerChar(label[off + k]) = word[k]

\* C7: the three mandatory properties, then error_code and error_message
\* iff the raw label contains "error", then element_id and page iff it
\* contains "click" or "cta", case-insensitively; the added ones optional.
DefaultPropertiesByKeyword ==
    ret.op = "_default_properties" =>
        LET isError == ContainsIgnoringCase(args, T_error)
            isClick == ContainsIgnoringCase(args, T_click) \/ ContainsIgnoringCase(args, T_cta)
            names == [j \in DOMAIN ret.value |-> ret.value[j].name]
        IN  /\ names = RequiredProps
                       \o (IF isError THEN <<"error_code", "error_message">> ELSE <<>>)
                       \o (IF isClick THEN <<"element_id", "page">> ELSE <<>>)
            /\ \A j \in DOMAIN ret.value : ret.value[j].required = (j <= 3)

\* both keywords in mixed case: the error block precedes the click block
DefaultPropertiesWitness ==
    /\ ret.op = "_default_properties"
    /\ args = T_CTA \o <<" ">> \o <<"E", "r", "R", "O", "R">>
    /\ [j \in DOMAIN ret.value |-> ret.value[j].name]
         = <<"user_id", "workspace_id", "timestamp",
             "error_code", "error_message", "element_id", "page">>

(***************************************************************************)
(* Properties of generate_sample_events.                                   *)
(***************************************************************************)
PlanEventNames == {plan.events[i].event_name : i \in DOMAIN plan.events}

ReturnsNRecordsOfPlan ==
    /\ ret.raised = ""
    /\ Len(ret.value) = ret.n
    /\ \A i \in DOMAIN ret.value :
         /\ ret.value[i][1].key = "event_name"
         /\ ret.value[i][1].value \in PlanEventNames

SortedSeq(S) ==
    [k \in 1..Cardinality(S) |-> CHOOSE x \in S : Cardinality({y \in S : y < x}) = k - 1]

\* the lines first..last split into the blocks opened by "- " at indent
ItemBlocks(lines, first, last, indent) ==
    LET starts == SortedSeq({i \in first..last : lines[i].indent = indent /\ lines[i].dash})
    IN  [k \in DOMAIN starts |->
           [first |-> starts[k],
            last |-> IF k < Len(starts) THEN starts[k + 1] - 1 ELSE last]]

LoadColumn(lines, b) ==
    [name |-> lines[b.first].value,
     description |-> lines[b.first + 1].value,
     wellFormed |-> /\ b.last >= b.first + 2
                    /\ lines[b.first].key = "name"
                    /\ lines[b.first + 1].key = "description"
                    /\ lines[b.first + 2].key = "tests"
                    /\ (lines[b.first + 2].kind = "empty_list" => b.last = b.first + 2),
     tests |-> [k \in 1..(b.last - (b.first + 2)) |-> lines[b.first + 2 + k].value]]

LoadModel(lines, b) ==
    [name |-> lines[b.first].value,
     description |-> lines[b.first + 1].value,
     wellFormed |-> /\ b.last >= b.first + 2
                    /\ lines[b.first].key = "name"
                    /\ lines[b.first + 1].key = "description"
                    /\ lines[b.first + 2].key = "columns",
     columns |-> LET cs == ItemBlocks(lines, b.first + 3, b.last, 2)
                 IN  [j \in DOMAIN cs |-> LoadColumn(lines, cs[j])]]

LoadModels(lines) ==
    LET ms == ItemBlocks(lines, 3, Len(lines), 0)
    IN  [i \in DOMAIN ms |-> LoadModel(lines, ms[i])]

\* C8: version 2 and one model per event in plan order, named and described
\* after the event, with one column per property in property order; tests is
\* ["not_null"] for a required property and empty for an optional one.
DbtYamlMirrorsPlan ==
    ret.op = "tracking_plan_to_dbt_yaml" =>
        LET lines == ret.value
            models == LoadModels(lines)
        IN  /\ Len(lines) >= 2
            /\ lines[1] = YamlLine(0, FALSE, "version", "scalar", <<2>>)
            /\ lines[2].key = "models" /\ lines[2].indent = 0
            /\ Len(models) = Len(plan.events)
            /\ \A i \in DOMAIN models :
                 LET m == models[i]
                     ev == plan.events[i]
                 IN  /\ m.wellFormed
                     /\ m.name = ev.event_name
                     /\ m.description = ev.description
                     /\ Len(m.columns) = Len(ev.properties)
                     /\ \A j \in DOMAIN m.columns :
                          /\ m.columns[j].wellFormed
                          /\ m.columns[j].name = <<ev.properties[j].name>>
                          /\ m.columns[j].description = <<ev.properties[j].description>>
                          /\ m.columns[j].tests
                               = (IF ev.properties[j].required
                                  THEN << <<"not_null">> >> ELSE <<>>)

\* a plan with an event that has required and optional properties
DbtYamlWitness ==
    /\ ret.op = "tracking_plan_to_dbt_yaml"
    /\ Len(plan.events) >= 4
    /\ \E i \in DOMAIN plan.events : Len(plan.events[i].properties) = 7
    /\ \E k \in DOMAIN ret.value : ret.value[k].kind = "empty_list" /\ ret.value[k].key = "tests"

(***************************************************************************)
(* The plan under the renderers.                                           *)
(***************************************************************************)
BuiltPlan ==
    generate_tracking_plan(args.feature_name, args.feature_description,
                           args.key_actions, args.platform, args.funnel_stages)

\* C9: after any sequence of renderer calls the plan still equals the value
\* generate_tracking_plan returned, and what a renderer returns is what it
\* returns on that value, whichever renderers ran before it.
RenderersLeavePlanUnchanged ==
    pc = "built" =>
        /\ plan = BuiltPlan
        /\ ret.op = "tracking_plan_to_markdown"
             => ret.value = tracking_plan_to_markdown(BuiltPlan)
        /\ ret.op = "tracking_plan_to_dbt_yaml"
             => ret.value = tracking_plan_to_dbt_yaml(BuiltPlan)
        /\ ret.op = "generate_sample_events"
             => \A i \in DOMAIN ret.value :
                  \E e \in DOMAIN BuiltPlan.events, d \in RandomDraws :
                      ret.value[i] = SamplePayload(BuiltPlan.events[e], d)

\* the sample generator has run on a plan that has taxonomy issues
RenderersWitness ==
    /\ pc = "built"
    /\ ret.op = "generate_sample_events"
    /\ ret.n = 2
    /\ plan.taxonomy_issues # <<>>
    /\ Len(plan.events) = 2
    /\ Len(ret.value) = 2
====
